---- MODULE Spec2Model ----
(***************************************************************************)
(* Model of the two SKU x UNIDADES extractors of the repository:           *)
(*   src/app.py  pdf_to_pairs + Markdown round trip + diagnostics view     *)
(*   src/App.py  parse_pdf + warnings                                      *)
(* A page text is a sequence of one-character strings; the regular         *)
(* expressions of the source are computed character by character.          *)
(***************************************************************************)
EXTENDS Integers, Sequences, FiniteSets, TLC

\* ------------------------------------------------------------------------
\* Bounds of the model
\* ------------------------------------------------------------------------
\* pages of a document
MaxPages == 2

\* lines of text of a document, all pages together
MaxLines == 3

\* ------------------------------------------------------------------------
\* Characters
\* ------------------------------------------------------------------------
Digits == <<"0", "1", "2", "3", "4", "5", "6", "7", "8", "9">>

Lowers == <<"a", "b", "c", "d", "e", "f", "g", "h", "i", "j", "k", "l", "m",
            "n", "o", "p", "q", "r", "s", "t", "u", "v", "w", "x", "y", "z">>

Uppers == <<"A", "B", "C", "D", "E", "F", "G", "H", "I", "J", "K", "L", "M",
            "N", "O", "P", "Q", "R", "S", "T", "U", "V", "W", "X", "Y", "Z">>

DigitSet == {Digits[i] : i \in 1..10}

LowerSet == {Lowers[i] : i \in 1..26}

UpperSet == {Uppers[i] : i \in 1..26}

DigitVal == [c \in DigitSet |-> (CHOOSE i \in 1..10 : Digits[i] = c) - 1]

UpperOf == [c \in LowerSet |-> Uppers[CHOOSE i \in 1..26 : Lowers[i] = c]]

IsDigit(c) == c \in DigitSet

AlphaSet == LowerSet \cup UpperSet

AlnumSet == DigitSet \cup AlphaSet

WordSet == AlnumSet \cup {"_"}

SpaceSet == {" ", "\n", "\t"}

IsAlpha(c) == c \in AlphaSet

\* the class [A-Za-z0-9]
IsAlnum(c) == c \in AlnumSet

\* the class \w, which decides where \b holds
IsWord(c) == c \in WordSet

\* the class \s, also what str.strip() and str.split() remove
IsSpace(c) == c \in SpaceSet

\* str.upper() on one character; re.IGNORECASE compares through it
Upper(c) == IF c \in LowerSet THEN UpperOf[c] ELSE c

\* ------------------------------------------------------------------------
\* String helpers
\* ------------------------------------------------------------------------
Min(a, b) == IF a <= b THEN a ELSE b

\* s[i:] with a 1-based i
From(s, i) == SubSeq(s, i, Len(s))

\* literal lit occurs in s at position i, ignoring case
MatchesAt(s, i, lit) ==
    /\ i >= 1
    /\ i + Len(lit) - 1 <= Len(s)
    /\ Upper(s[i]) = lit[1]
    /\ \A k \in 2..Len(lit) : Upper(s[i + k - 1]) = lit[k]

\* first position >= i whose character fails the class, Len(s)+1 if none
RECURSIVE SkipSpace(_, _)
SkipSpace(s, i) ==
    IF i <= Len(s) /\ IsSpace(s[i]) THEN SkipSpace(s, i + 1) ELSE i

RECURSIVE SkipAlnum(_, _)
SkipAlnum(s, i) ==
    IF i <= Len(s) /\ IsAlnum(s[i]) THEN SkipAlnum(s, i + 1) ELSE i

RECURSIVE SkipDigits(_, _)
SkipDigits(s, i) ==
    IF i <= Len(s) /\ IsDigit(s[i]) THEN SkipDigits(s, i + 1) ELSE i

\* last position <= i that is not whitespace, 0 if none
RECURSIVE SkipSpaceBack(_, _)
SkipSpaceBack(s, i) ==
    IF i >= 1 /\ IsSpace(s[i]) THEN SkipSpaceBack(s, i - 1) ELSE i

\* str.strip()
Strip(s) == SubSeq(s, SkipSpace(s, 1), SkipSpaceBack(s, Len(s)))

\* int(x) of a string of digits
RECURSIVE StrToInt(_)
StrToInt(s) ==
    IF s = << >> THEN 0
    ELSE 10 * StrToInt(SubSeq(s, 1, Len(s) - 1)) + DigitVal[s[Len(s)]]

\* str(n) of a non-negative integer
RECURSIVE IntToStr(_)
IntToStr(n) ==
    IF n < 10 THEN <<Digits[n + 1]>>
    ELSE Append(IntToStr(n \div 10), Digits[(n % 10) + 1])

\* str.splitlines(): the pieces between line feeds, no empty piece at the end
RECURSIVE SplitLinesFrom(_, _, _)
SplitLinesFrom(s, i, start) ==
    IF i > Len(s)
    THEN IF start > Len(s) THEN << >> ELSE <<SubSeq(s, start, Len(s))>>
    ELSE IF s[i] = "\n"
         THEN <<SubSeq(s, start, i - 1)>> \o SplitLinesFrom(s, i + 1, i + 1)
         ELSE SplitLinesFrom(s, i + 1, start)

SplitLines(s) == SplitLinesFrom(s, 1, 1)

RECURSIVE SkipNonSpace(_, _)
SkipNonSpace(s, i) ==
    IF i <= Len(s) /\ ~IsSpace(s[i]) THEN SkipNonSpace(s, i + 1) ELSE i

\* str.split(): the maximal runs of non-whitespace characters
RECURSIVE SplitWords(_, _)
SplitWords(s, i) ==
    LET j == SkipSpace(s, i)
        k == SkipNonSpace(s, j)
    IN IF j > Len(s) THEN << >>
       ELSE <<SubSeq(s, j, k - 1)>> \o SplitWords(s, k)

\* "sep".join(parts)
RECURSIVE Join(_, _)
Join(parts, sep) ==
    IF parts = << >> THEN << >>
    ELSE IF Len(parts) = 1 THEN parts[1]
    ELSE parts[1] \o sep \o Join(Tail(parts), sep)

\* \b at the gap before position i (1 <= i <= Len(s)+1)
WordBoundary(s, i) ==
    LET before == i > 1 /\ IsWord(s[i - 1])
        after  == i <= Len(s) /\ IsWord(s[i])
    IN before # after

\* ------------------------------------------------------------------------
\* Patterns of the source
\* ------------------------------------------------------------------------
\* the short-integer bound of \d{1,4}
ShortIntMaxDigits == 4

SkuMarker == <<"S", "K", "U", ":">>

Produto == <<"P", "R", "O", "D", "U", "T", "O">>

Unidades == <<"U", "N", "I", "D", "A", "D", "E", "S">>

ProdutoUnidades == Produto \o <<" ">> \o Unidades

\* SKU_RE.finditer(text): the matches of SKU:\s*([A-Za-z0-9]+), left to
\* right and non-overlapping, each with its start and its group 1
RECURSIVE SkuFindIter(_, _)
SkuFindIter(page_text, i) ==
    IF i > Len(page_text) THEN << >>
    ELSE IF MatchesAt(page_text, i, SkuMarker)
         THEN LET j == SkipSpace(page_text, i + Len(SkuMarker))
                  k == SkipAlnum(page_text, j)
              IN IF k > j
                 THEN <<[start |-> i, group1 |-> SubSeq(page_text, j, k - 1)]>>
                          \o SkuFindIter(page_text, k)
                 ELSE SkuFindIter(page_text, i + 1)
         ELSE SkuFindIter(page_text, i + 1)

\* [m.group(1).strip() for m in SKU_RE.finditer(text)]
SkusOf(page_text) ==
    LET ms == SkuFindIter(page_text, 1)
    IN [n \in 1..Len(ms) |-> Strip(ms[n].group1)]

\* App.py: the same list under the name extract_skus_in_order
extract_skus_in_order(page_text) == SkusOf(page_text)

\* end (exclusive) of a match of PRODUTO\s+UNIDADES starting at i, 0 if none
HeaderMatchEnd(page_text, i) ==
    IF MatchesAt(page_text, i, Produto)
    THEN LET j == SkipSpace(page_text, i + Len(Produto))
         IN IF j > i + Len(Produto) /\ MatchesAt(page_text, j, Unidades)
            THEN j + Len(Unidades)
            ELSE 0
    ELSE 0

\* header_pat.finditer(page_text): the matches, left to right
RECURSIVE HeaderFindIter(_, _)
HeaderFindIter(page_text, i) ==
    IF i > Len(page_text) THEN << >>
    ELSE LET e == HeaderMatchEnd(page_text, i)
         IN IF e > 0
            THEN <<[start |-> i, end |-> e]>> \o HeaderFindIter(page_text, e)
            ELSE HeaderFindIter(page_text, i + 1)

\* a word of 1 to 4 digits
IsShortInt(w) ==
    /\ Len(w) >= 1
    /\ Len(w) <= ShortIntMaxDigits
    /\ \A k \in 1..Len(w) : IsDigit(w[k])

\* re.fullmatch(r"(?:\d{1,4}\s+)+\d{1,4}", s) on a stripped line
IsNumbersLine(s) ==
    LET ws == SplitWords(s, 1)
    IN Len(ws) >= 2 /\ \A k \in 1..Len(ws) : IsShortInt(ws[k])

\* re.match(r"^(\d{1,4})\b", s): group 1, or << >> when there is no match
LeadingShortInt(s) ==
    LET k == SkipDigits(s, 1)
    IN IF k > 1 /\ k - 1 <= ShortIntMaxDigits /\ WordBoundary(s, k)
       THEN SubSeq(s, 1, k - 1)
       ELSE << >>

\* what one line of the tail adds to units
LineUnits(line) ==
    LET s == Strip(line)
    IN IF s = << >> THEN << >>
       ELSE IF IsNumbersLine(s)
            THEN LET ws == SplitWords(s, 1)
                 IN [k \in 1..Len(ws) |-> StrToInt(ws[k])]
            ELSE IF LeadingShortInt(s) # << >>
                 THEN <<StrToInt(LeadingShortInt(s))>>
                 ELSE << >>

RECURSIVE ScanLines(_)
ScanLines(lines) ==
    IF lines = << >> THEN << >>
    ELSE LineUnits(lines[1]) \o ScanLines(Tail(lines))

\* where the tail begins: matches[-1].start()
TailStart(m) == m.start

extract_units_from_tail(page_text) ==
    IF page_text = << >> THEN << >>
    ELSE LET matches == HeaderFindIter(page_text, 1)
         IN IF matches = << >> THEN << >>
            ELSE LET idx  == TailStart(matches[Len(matches)])
                     tail == From(page_text, idx)
                 IN ScanLines(SplitLines(tail))

\* re.findall(r"\b\d{1,lim}\b", s): the digit runs of at most lim digits
\* with a word boundary on both sides
RECURSIVE FindNumbers(_, _, _)
FindNumbers(s, i, lim) ==
    IF i > Len(s) THEN << >>
    ELSE IF IsDigit(s[i]) /\ WordBoundary(s, i)
         THEN LET k == SkipDigits(s, i)
              IN IF k - i <= lim /\ WordBoundary(s, k)
                 THEN <<SubSeq(s, i, k - 1)>> \o FindNumbers(s, k, lim)
                 ELSE FindNumbers(s, i + 1, lim)
         ELSE FindNumbers(s, i + 1, lim)

\* [int(x) for x in xs]
Ints(xs) == [k \in 1..Len(xs) |-> StrToInt(xs[k])]

\* xs[-n:]
LastSlice(xs, n) ==
    IF n = 0 \/ n >= Len(xs) THEN xs
    ELSE SubSeq(xs, Len(xs) - n + 1, Len(xs))


\* variant: the fallback takes the first numbers, tail_nums[:len(skus)]
PageUnitsFirst(page_text, sku_list) ==
    LET unit_list == extract_units_from_tail(page_text)
    IN IF unit_list = << >> /\ sku_list # << >>
       THEN LET tail_nums == FindNumbers(page_text, 1, ShortIntMaxDigits)
            IN Ints(SubSeq(tail_nums, 1, Min(Len(sku_list), Len(tail_nums))))
       ELSE unit_list

\* variant: the fallback runs without the "and skus" guard
PageUnitsUnguarded(page_text, sku_list) ==
    LET unit_list == extract_units_from_tail(page_text)
    IN IF unit_list = << >>
       THEN LET tail_nums == FindNumbers(page_text, 1, ShortIntMaxDigits)
            IN IF Len(tail_nums) >= 1
               THEN Ints(LastSlice(tail_nums, Len(sku_list)))
               ELSE << >>
       ELSE unit_list

\* app.py: the units of one page, header scan first, loose numbers second
PageUnits(page_text, sku_list) ==
    LET unit_list == extract_units_from_tail(page_text)
    IN IF unit_list = << >> /\ sku_list # << >>
       THEN LET tail_nums == FindNumbers(page_text, 1, ShortIntMaxDigits)
            IN IF Len(tail_nums) >= 1
               THEN Ints(LastSlice(tail_nums, Len(sku_list)))
               ELSE << >>
       ELSE unit_list

\* the last position <= i where lit stands in the upper-cased s, 0 if none
RECURSIVE RFindFrom(_, _, _)
RFindFrom(s, lit, i) ==
    IF i < 1 THEN 0
    ELSE IF MatchesAt(s, i, lit) THEN i
    ELSE RFindFrom(s, lit, i - 1)

\* upper.rfind(lit), 0 for Python's -1
RFind(s, lit) == RFindFrom(s, lit, Len(s) - Len(lit) + 1)

\* App.py: every number after the last header
extract_units_after_header(page_text) ==
    IF page_text = << >> THEN << >>
    ELSE LET i1  == RFind(page_text, ProdutoUnidades)
             idx == IF i1 = 0 THEN RFind(page_text, Unidades) ELSE i1
         IN IF idx = 0 THEN << >>
            ELSE Ints(FindNumbers(From(page_text, idx), 1, Len(page_text)))

\* ------------------------------------------------------------------------
\* Pairing (app.py) and row building (App.py)
\* ------------------------------------------------------------------------

\* variant: the pairing loop stops one short, as with range(m - 1)
PairedCountShort(sku_list, unit_list) ==
    IF Min(Len(sku_list), Len(unit_list)) > 0
    THEN Min(Len(sku_list), Len(unit_list)) - 1
    ELSE 0

\* m = min(len(skus), len(units))
PairedCount(sku_list, unit_list) == Min(Len(sku_list), Len(unit_list))


\* variant: the records of a page are put in front of the earlier ones
PrependPairs(pair_list, sku_list, unit_list, m) ==
    [i \in 1..m |-> <<sku_list[i], unit_list[i]>>] \o pair_list

\* for i in range(m): pairs.append((skus[i], units[i]))
AppendPairs(pair_list, sku_list, unit_list, m) ==
    pair_list \o [i \in 1..m |-> <<sku_list[i], unit_list[i]>>]

\* the entry appended to diag["per_page"]
PageDiag(ordinal, sku_list, unit_list, m) ==
    [page |-> ordinal, skus |-> Len(sku_list), units |-> Len(unit_list),
     paired |-> m]

\* bool(diag.get("mismatch_pages"))
HasMismatchPages(d) ==
    IF "mismatch_pages" \in DOMAIN d THEN d["mismatch_pages"] # << >> ELSE FALSE

\* App.py: units = units[: len(skus)] when there are more units than skus
TruncateUnits(sku_list, unit_list) ==
    IF Len(unit_list) > Len(sku_list)
    THEN SubSeq(unit_list, 1, Len(sku_list))
    ELSE unit_list

\* App.py: one row per sku; unidades is <<n>>, or << >> for None
PageRows(ordinal, sku_list, unit_list) ==
    [i \in 1..Len(sku_list) |->
        [page |-> ordinal, sku |-> sku_list[i],
         unidades |-> IF i <= Len(unit_list) THEN <<unit_list[i]>> ELSE << >>]]

\* App.py: the warning of a page with fewer units than skus
PageWarnings(ordinal, sku_list, unit_list) ==
    IF Len(unit_list) < Len(sku_list)
    THEN <<[kind |-> "short", page |-> ordinal,
            skus |-> Len(sku_list), units |-> Len(unit_list)]>>
    ELSE << >>

\* ------------------------------------------------------------------------
\* Markdown (app.py)
\* ------------------------------------------------------------------------
MdHeader == <<"|", " ", "S", "K", "U", " ", "|", " ",
              "U", "N", "I", "D", "A", "D", "E", "S", " ", "|">>

MdSeparator == <<"|", "-", "-", "-", "|", "-", "-", "-", ":", "|">>

\* f"| {sku} | {unidades} |"
MdRow(pair) ==
    <<"|", " ">> \o pair[1] \o <<" ", "|", " ">> \o IntToStr(pair[2])
        \o <<" ", "|">>

pairs_to_markdown(pair_list) ==
    Join(<<MdHeader, MdSeparator>>
             \o [i \in 1..Len(pair_list) |-> MdRow(pair_list[i])],
         <<"\n">>)

\* s.strip("|")
RECURSIVE StripBars(_)
StripBars(s) ==
    IF s = << >> THEN s
    ELSE IF s[1] = "|" THEN StripBars(Tail(s))
    ELSE IF s[Len(s)] = "|" THEN StripBars(SubSeq(s, 1, Len(s) - 1))
    ELSE s

\* s.split("|"): the pieces between bars, empty pieces included
RECURSIVE SplitBars(_, _, _)
SplitBars(s, i, start) ==
    IF i > Len(s) THEN <<SubSeq(s, start, Len(s))>>
    ELSE IF s[i] = "|"
         THEN <<SubSeq(s, start, i - 1)>> \o SplitBars(s, i + 1, i + 1)
         ELSE SplitBars(s, i + 1, start)

\* [c.strip() for c in ln.strip("|").split("|")]
Cells(ln) ==
    LET cs == SplitBars(StripBars(ln), 1, 1)
    IN [k \in 1..Len(cs) |-> Strip(cs[k])]

\* re.fullmatch(r":?-{3,}:?", c.replace(" ", ""))
IsSepCell(c) ==
    LET t  == SelectSeq(c, LAMBDA ch : ch # " ")
        a  == IF t # << >> /\ t[1] = ":" THEN 2 ELSE 1
        b  == IF Len(t) >= a /\ t[Len(t)] = ":" THEN Len(t) - 1 ELSE Len(t)
    IN /\ b - a + 1 >= 3
       /\ \A k \in a..b : t[k] = "-"

is_sep(ln) == \A k \in 1..Len(Cells(ln)) : IsSepCell(Cells(ln)[k])

\* header.index(name), 1-based, 0 when the name is not a header cell
HeaderIndex(header, name) ==
    IF \E k \in 1..Len(header) : header[k] = name
    THEN CHOOSE k \in 1..Len(header) :
             header[k] = name /\ \A j \in 1..(k - 1) : header[j] # name
    ELSE 0


\* variant: the pattern \d instead of \d+, one digit only
FirstDigit(cell) ==
    LET starts == {i \in 1..Len(cell) : IsDigit(cell[i])}
    IN IF starts = {} THEN << >>
       ELSE LET i == CHOOSE x \in starts : \A y \in starts : x <= y
            IN <<StrToInt(<<cell[i]>>)>>

\* re.search(r"\d+", cell): int of the first run of digits, << >> for None
FirstInt(cell) ==
    LET starts == {i \in 1..Len(cell) : IsDigit(cell[i])}
    IN IF starts = {} THEN << >>
       ELSE LET i == CHOOSE x \in starts : \A y \in starts : x <= y
            IN <<StrToInt(SubSeq(cell, i, SkipDigits(cell, i) - 1))>>

\* the row dict of one table row, << >> when the row is skipped
DfRow(r, sku_i, uni_i) ==
    IF sku_i > Len(r) \/ uni_i > Len(r) THEN << >>
    ELSE IF Strip(r[sku_i]) = << >> THEN << >>
    ELSE <<[SKU |-> Strip(r[sku_i]), UNIDADES |-> FirstInt(r[uni_i])]>>

RECURSIVE DfRows(_, _, _)
DfRows(row_list, sku_i, uni_i) ==
    IF row_list = << >> THEN << >>
    ELSE DfRow(row_list[1], sku_i, uni_i)
             \o DfRows(Tail(row_list), sku_i, uni_i)

markdown_to_df(markdown) ==
    IF Strip(markdown) = << >> THEN << >>
    ELSE
    LET raw         == SplitLines(markdown)
        stripped    == [k \in 1..Len(raw) |-> Strip(raw[k])]
        lines       == SelectSeq(stripped, LAMBDA ln : ln # << >>)
        table_lines == SelectSeq(lines,
                           LAMBDA ln : ln[1] = "|" /\ ln[Len(ln)] = "|")
        content     == SelectSeq(table_lines, LAMBDA ln : ~is_sep(ln))
    IN IF Len(table_lines) < 2 \/ content = << >> THEN << >>
       ELSE LET header == [k \in 1..Len(Cells(content[1])) |->
                              [j \in 1..Len(Cells(content[1])[k]) |->
                                  Upper(Cells(content[1])[k][j])]]
                row_list == [k \in 1..(Len(content) - 1) |->
                                Cells(content[k + 1])]
                sku_i  == HeaderIndex(header, <<"S", "K", "U">>)
                uni_i  == HeaderIndex(header, Unidades)
            IN IF sku_i = 0 \/ uni_i = 0 THEN << >>
               ELSE DfRows(row_list, sku_i, uni_i)

\* ------------------------------------------------------------------------
\* Input: the lines a page text is made of
\* ------------------------------------------------------------------------
LineSku == <<"S", "K", "U", ":", " ", "A", "B", "1", "2">>

LineSkuQty == <<"S", "K", "U", ":", " ", "A", "B", "1", "2", " ", "7">>

LineSkuLower == <<"s", "k", "u", ":", "C", "X", "8">>

LineSkuNumeric == <<"S", "K", "U", ":", " ", "3">>

LineHeader == <<"P", "R", "O", "D", "U", "T", "O", " ",
               "U", "N", "I", "D", "A", "D", "E", "S">>

LineHeaderWithInt == <<"p", "r", "o", "d", "u", "t", "o", " ", " ",
                      "u", "n", "i", "d", "a", "d", "e", "s", " ", "7">>

LineInts == <<"3", " ", "2", " ", "3", "6", "0">>

LineIntText == <<"1", "2", " ", "x">>

LineLongInt == <<"1", "2", "3", "4", "5">>

LineSet == {LineSku, LineSkuQty, LineSkuLower, LineSkuNumeric, LineHeader,
            LineHeaderWithInt, LineInts, LineIntText, LineLongInt}

\* page.extract_text() or "": the texts of n lines joined by line feeds
PageTexts(n) == {Join(ls, <<"\n">>) : ls \in [1..n -> LineSet]}

\* first half of an iteration of the page loops: for each page text of up to
\* MaxLines lines, the skus and units that app.py and App.py read from it
PageReads ==
    UNION {{LET s == SkusOf(t)
                u == PageUnits(t, s)
                ls == extract_skus_in_order(t)
                lu == extract_units_after_header(t)
            IN [lines |-> n, text |-> t, skus |-> s, units |-> u,
                legacy_skus |-> ls, legacy_units |-> lu]
               : t \in PageTexts(n)} : n \in 0..MaxLines}

\* ------------------------------------------------------------------------
\* State
\* ------------------------------------------------------------------------
VARIABLES
    program,    \* "app" (src/app.py) or "App" (src/App.py)
    pc,         \* position of the script run
    num_pages,  \* len(pdf.pages)
    lines_left, \* lines of text on the pages not read yet, at most
    page_idx,   \* ordinal of the page processed last, 0 before the first
    text,       \* text of that page
    skus,       \* skus of that page
    units,      \* units of that page, as used for pairing
    pairs,      \* app.py: list of (sku, units)
    diag,       \* app.py: the diagnostics dict
    md,         \* app.py: the generated Markdown
    df,         \* app.py: the data frame read back from the Markdown
    views,      \* app.py: what the page shows
    rows,       \* App.py: list of row dicts
    warnings    \* App.py: list of warnings

vars == <<program, pc, num_pages, lines_left, page_idx, text, skus, units,
          pairs, diag, md, df, views, rows, warnings>>

Init ==
    /\ program \in {"app", "App"}
    /\ pc = "pages"
    /\ num_pages \in 1..MaxPages
    /\ lines_left = MaxLines
    /\ page_idx = 0
    /\ text = << >>
    /\ skus = << >>
    /\ units = << >>
    /\ pairs = << >>
    /\ diag = [pages |-> num_pages, per_page |-> << >>]
    /\ md = << >>
    /\ df = << >>
    /\ views = {}
    /\ rows = << >>
    /\ warnings = << >>

\* app.py: first half of an iteration of the page loop of pdf_to_pairs,
\* the text of the next page and the two lists read from it
ExtractPage ==
    /\ program = "app"
    /\ pc = "pages"
    /\ page_idx < num_pages
    /\ \E p \in PageReads :
         /\ p.lines <= lines_left
         /\ lines_left' = lines_left - p.lines
         /\ text' = p.text
         /\ skus' = p.skus
         /\ units' = p.units
    /\ page_idx' = page_idx + 1
    /\ pc' = "pair"
    /\ UNCHANGED <<program, num_pages, pairs, diag, md, df, views,
                   rows, warnings>>

\* app.py: second half of the iteration, pairing and the diagnostics entry;
\* the locals of the finished iteration are dead and are reset
PairPage ==
    /\ program = "app"
    /\ pc = "pair"
    /\ LET m == PairedCount(skus, units)
       IN /\ pairs' = AppendPairs(pairs, skus, units, m)
          /\ diag' = [diag EXCEPT !.per_page =
                         Append(@, PageDiag(page_idx, skus, units, m))]
    /\ text' = << >>
    /\ skus' = << >>
    /\ units' = << >>
    /\ pc' = "pages"
    /\ UNCHANGED <<program, num_pages, lines_left, page_idx, md, df, views,
                   rows, warnings>>

\* app.py: pdf_to_pairs returns and the page finds no pairs
ShowError ==
    /\ program = "app"
    /\ pc = "pages"
    /\ page_idx = num_pages
    /\ pairs = << >>
    /\ views' = views \cup {"error", "diag"}
    /\ pc' = "done"
    /\ UNCHANGED <<program, num_pages, lines_left, page_idx, text, skus, units,
                   pairs, diag, md, df, rows, warnings>>

\* app.py: md = pairs_to_markdown(pairs)
PairsToMarkdown ==
    /\ program = "app"
    /\ pc = "pages"
    /\ page_idx = num_pages
    /\ pairs # << >>
    /\ md' = pairs_to_markdown(pairs)
    /\ pc' = "markdown"
    /\ UNCHANGED <<program, num_pages, lines_left, page_idx, text, skus, units,
                   pairs, diag, df, views, rows, warnings>>

\* app.py: df = markdown_to_df(md), then the success line and the table
MarkdownToDf ==
    /\ program = "app"
    /\ pc = "markdown"
    /\ df' = markdown_to_df(md)
    /\ views' = views \cup {"success", "markdown", "table"}
    /\ pc' = "table"
    /\ UNCHANGED <<program, num_pages, lines_left, page_idx, text, skus, units,
                   pairs, diag, md, rows, warnings>>

\* app.py: the diagnostics expander and the download buttons
RenderDiagnostics ==
    /\ program = "app"
    /\ pc = "table"
    /\ views' = views \cup (IF HasMismatchPages(diag) THEN {"mismatch"} ELSE {})
                      \cup {"downloads"}
    /\ pc' = "done"
    /\ UNCHANGED <<program, num_pages, lines_left, page_idx, text, skus, units,
                   pairs, diag, md, df, rows, warnings>>

\* App.py: first half of an iteration of the page loop of parse_pdf
ExtractPageLegacy ==
    /\ program = "App"
    /\ pc = "pages"
    /\ page_idx < num_pages
    /\ \E p \in PageReads :
         /\ p.lines <= lines_left
         /\ lines_left' = lines_left - p.lines
         /\ text' = p.text
         /\ skus' = p.legacy_skus
         /\ units' = p.legacy_units
    /\ page_idx' = page_idx + 1
    /\ pc' = "pair"
    /\ UNCHANGED <<program, num_pages, pairs, diag, md, df, views,
                   rows, warnings>>

\* App.py: second half of the iteration, the warning and the rows; a page
\* without skus is skipped; the locals of the finished iteration are reset
RowsPage ==
    /\ program = "App"
    /\ pc = "pair"
    /\ warnings' = IF skus = << >> THEN warnings
                   ELSE warnings \o PageWarnings(page_idx, skus, units)
    /\ rows' = IF skus = << >> THEN rows
               ELSE rows \o PageRows(page_idx, skus, TruncateUnits(skus, units))
    /\ text' = << >>
    /\ skus' = << >>
    /\ units' = << >>
    /\ pc' = "pages"
    /\ UNCHANGED <<program, num_pages, lines_left, page_idx,
                   pairs, diag, md, df, views>>

\* App.py: parse_pdf returns; the page shows the warnings and the table
ParsePdfReturn ==
    /\ program = "App"
    /\ pc = "pages"
    /\ page_idx = num_pages
    /\ warnings' = IF rows = << >> THEN Append(warnings, [kind |-> "empty"])
                   ELSE warnings
    /\ views' = views \cup (IF warnings' # << >> THEN {"warnings"} ELSE {})
                      \cup (IF rows # << >> THEN {"table", "downloads"} ELSE {})
    /\ pc' = "done"
    /\ UNCHANGED <<program, num_pages, lines_left, page_idx, text, skus, units,
                   pairs, diag, md, df, rows>>

Next ==
    \/ ExtractPage
    \/ PairPage
    \/ ShowError
    \/ PairsToMarkdown
    \/ MarkdownToDf
    \/ RenderDiagnostics
    \/ ExtractPageLegacy
    \/ RowsPage
    \/ ParsePdfReturn

Spec == Init /\ [][Next]_vars

\* ------------------------------------------------------------------------
\* Vocabulary of the properties
\* ------------------------------------------------------------------------
\* the step that ends the iteration of one page
PageDone == pc = "pair" /\ pc' = "pages"

\* the text holds no SKU: marker at all
NoMarker(t) == ~\E i \in 1..Len(t) : MatchesAt(t, i, SkuMarker)

\* the text holds no header phrase
NoHeader(t) == ~\E i \in 1..Len(t) : HeaderMatchEnd(t, i) > 0

\* the marker stands at position p of t and is followed by exactly id
MarkerWith(t, p, id) ==
    /\ MatchesAt(t, p, SkuMarker)
    /\ LET j == SkipSpace(t, p + Len(SkuMarker))
       IN /\ j + Len(id) - 1 <= Len(t)
          /\ SubSeq(t, j, j + Len(id) - 1) = id
          /\ (j + Len(id) > Len(t) \/ ~IsAlnum(t[j + Len(id)]))

\* ids are found behind markers at strictly increasing positions >= from
RECURSIVE InDiscoveryOrder(_, _, _)
InDiscoveryOrder(t, ids, from) ==
    IF ids = << >> THEN TRUE
    ELSE LET hits == {p \in from..Len(t) : MarkerWith(t, p, ids[1])}
         IN IF hits = {} THEN FALSE
            ELSE InDiscoveryOrder(t, Tail(ids),
                     (CHOOSE p \in hits : \A q \in hits : p <= q) + 1)

\* xs is ys with a block added at its end
Extends(xs, ys) == Len(xs) >= Len(ys) /\ SubSeq(xs, 1, Len(ys)) = ys

HasLetter(id) == \E k \in 1..Len(id) : IsAlpha(id[k])

HasDigit(id) == \E k \in 1..Len(id) : IsDigit(id[k])

LastOf(xs) == xs[Len(xs)]

\* the tail scan as the specification words it: the lines of the text that
\* follows the END of the last header occurrence
TailScanAfterHeader(t) ==
    LET matches == HeaderFindIter(t, 1)
    IN IF matches = << >> THEN << >>
       ELSE ScanLines(SplitLines(From(t, LastOf(matches).end)))

C2_OrderPreserved ==
    [][PageDone =>
        IF program = "app"
        THEN /\ Extends(pairs', pairs)
             /\ InDiscoveryOrder(text,
                    [i \in 1..(Len(pairs') - Len(pairs)) |->
                        pairs'[Len(pairs) + i][1]], 1)
             /\ \A i \in 1..Len(diag.per_page) :
                    diag.per_page[i].page < LastOf(diag'.per_page).page
        ELSE /\ Extends(rows', rows)
             /\ InDiscoveryOrder(text,
                    [i \in 1..(Len(rows') - Len(rows)) |->
                        rows'[Len(rows) + i].sku], 1)
             /\ \A i \in 1..Len(rows') : \A j \in i..Len(rows') :
                    rows'[i].page <= rows'[j].page]_vars

\* two pages with records, the second with two different identifiers
C2_Witness ==
    /\ program = "app"
    /\ pc = "pages"
    /\ Len(diag.per_page) = 2
    /\ diag.per_page[1].paired >= 1
    /\ diag.per_page[2].paired >= 2
    /\ pairs[Len(pairs)][1] # pairs[Len(pairs) - 1][1]

\* ------------------------------------------------------------------------
\* C3 - Shape invariant: every emitted identifier holds at least one ASCII
\* letter and at least one digit.
\* ------------------------------------------------------------------------
C3_ShapeInvariant ==
    /\ \A i \in 1..Len(pairs) : HasLetter(pairs[i][1]) /\ HasDigit(pairs[i][1])
    /\ \A i \in 1..Len(rows) : HasLetter(rows[i].sku) /\ HasDigit(rows[i].sku)

\* ------------------------------------------------------------------------
\* C4 - A page without any marker adds no record and its diagnostics entry
\* is skus=0, units=0, paired=0, whatever else the page holds.
\* ------------------------------------------------------------------------
C4_NoMarkerAllZero ==
    [][(program = "app" /\ PageDone /\ NoMarker(text)) =>
        /\ pairs' = pairs
        /\ LastOf(diag'.per_page) =
               [page |-> page_idx, skus |-> 0, units |-> 0, paired |-> 0]]_vars

\* C4 as amended - a page without any marker adds no record (and in App.py
\* no row and no warning); its entry has skus=0 and paired=0, and its units
\* is the number of quantities the header scan found on the page, which is
\* 0 when the page has no header phrase.
C4_NoMarkerNoRecord ==
    [][(PageDone /\ NoMarker(text)) =>
        IF program = "app"
        THEN /\ pairs' = pairs
             /\ LastOf(diag'.per_page).page = page_idx
             /\ LastOf(diag'.per_page).skus = 0
             /\ LastOf(diag'.per_page).paired = 0
             /\ LastOf(diag'.per_page).units =
                    Len(extract_units_from_tail(text))
             /\ NoHeader(text) => LastOf(diag'.per_page).units = 0
        ELSE rows' = rows /\ warnings' = warnings]_vars

\* a page without marker whose entry counts units
C4_Witness ==
    /\ program = "app"
    /\ pc = "pages"
    /\ \E i \in 1..Len(diag.per_page) :
           diag.per_page[i].skus = 0 /\ diag.per_page[i].units > 0

\* ------------------------------------------------------------------------
\* C5 - NoQuantityFound: on a page with identifiers and no quantity at all,
\* every identifier is still emitted as a record (its quantity absent) and
\* a mismatch is recorded for the page.
\* ------------------------------------------------------------------------
C5_IdentifiersKept ==
    [][(PageDone /\ skus # << >> /\ units = << >>) =>
        IF program = "app"
        THEN /\ Len(pairs') = Len(pairs) + Len(skus)
             /\ \A i \in 1..Len(skus) : pairs'[Len(pairs) + i][1] = skus[i]
             /\ LastOf(diag'.per_page).skus # LastOf(diag'.per_page).units
        ELSE /\ Len(rows') = Len(rows) + Len(skus)
             /\ \A i \in 1..Len(skus) :
                    /\ rows'[Len(rows) + i].sku = skus[i]
                    /\ rows'[Len(rows) + i].unidades = << >>
             /\ Len(warnings') = Len(warnings) + 1
             /\ LastOf(warnings').page = page_idx]_vars

\* ------------------------------------------------------------------------
\* C6 - When a page has different counts of skus and units, the
\* diagnostics name it as a mismatch page and the mismatch view is shown
\* with the table.
\* ------------------------------------------------------------------------
C6_MismatchShown ==
    (/\ program = "app"
     /\ pc = "done"
     /\ pairs # << >>
     /\ \E i \in 1..Len(diag.per_page) :
            diag.per_page[i].skus # diag.per_page[i].units)
        => (HasMismatchPages(diag) /\ "mismatch" \in views)

\* ------------------------------------------------------------------------
\* C7 - Every emitted quantity is a short integer, 0..9999.
\* ------------------------------------------------------------------------
C7_ShortQuantities ==
    /\ \A i \in 1..Len(pairs) : pairs[i][2] \in 0..9999
    /\ \A i \in 1..Len(rows) :
           \A k \in 1..Len(rows[i].unidades) : rows[i].unidades[k] \in 0..9999

\* ------------------------------------------------------------------------
\* C8 - Escalation: the units of a page are the header scan's result when
\* that is non-empty; else, with identifiers, the last N short integers of
\* the page in their order (all when fewer than N), N the number of
\* identifiers; else empty.
\* ------------------------------------------------------------------------
C8_Escalation ==
    (program = "app" /\ pc = "pair") =>
        LET h    == extract_units_from_tail(text)
            toks == Ints(FindNumbers(text, 1, ShortIntMaxDigits))
            k    == IF Len(skus) <= Len(toks) THEN Len(skus) ELSE Len(toks)
        IN IF h # << >> THEN units = h
           ELSE /\ Len(units) = k
                /\ \A i \in 1..k : units[i] = toks[Len(toks) - k + i]

\* the fallback at work on a page with more short integers than skus,
\* whose last one differs from its first
C8_Witness ==
    /\ program = "app"
    /\ pc = "pair"
    /\ extract_units_from_tail(text) = << >>
    /\ skus # << >>
    /\ LET toks == Ints(FindNumbers(text, 1, ShortIntMaxDigits))
       IN Len(toks) > Len(skus) /\ toks[1] # LastOf(toks) /\ units # << >>

\* ------------------------------------------------------------------------
\* C9 - Header-anchored tail scan: the quantities come from the lines of
\* the text after the last header occurrence, so that a short integer that
\* follows the header on the header's own line is emitted.
\* ------------------------------------------------------------------------
C9_TailAfterHeader ==
    (program = "app" /\ pc = "pair" /\ TailScanAfterHeader(text) # << >>) =>
        units = TailScanAfterHeader(text)

\* ------------------------------------------------------------------------
\* C10 - Markdown round trip: the data frame read back from the Markdown
\* of the pairs has one row per pair, in order, with the same identifier
\* and the same integer quantity.
\* ------------------------------------------------------------------------
C10_RoundTrip ==
    (program = "app" /\ pc \in {"table", "done"} /\ "table" \in views) =>
        /\ Len(df) = Len(pairs)
        /\ \A i \in 1..Len(pairs) :
               /\ df[i].SKU = pairs[i][1]
               /\ df[i].UNIDADES = <<pairs[i][2]>>

\* a table of several rows with a quantity of more than one digit
C10_Witness ==
    /\ program = "app"
    /\ pc = "table"
    /\ Len(df) >= 2
    /\ \E i \in 1..Len(pairs) : pairs[i][2] >= 10
    /\ \E i \in 1..Len(pairs) : pairs[i][2] < 10

====
